---- MODULE Spec2Model ----
(***************************************************************************)
(* A model of src/app.py, the JKKP Inspection & Defect Tracker: a          *)
(* Streamlit script that is re-run from top to bottom on every user        *)
(* interaction.  Texts are TLA+ strings, handled character by character;   *)
(* cell values are tagged records (a text, the float NaN of an empty cell, *)
(* a datetime.date, or NaT).                                               *)
(***************************************************************************)
EXTENDS Integers, Sequences, FiniteSets, TLC

VARIABLES
    \* ---- the Streamlit session (src/app.py as a whole) ----
    uploaded_file,  \* st.file_uploader's value: NoFile or a file
    today,          \* date.today(), the same day throughout the session
    sel,            \* the four selectboxes: role -> column index
    f_yn,           \* multiselect "Defect Found? (Yes/No)"
    f_cat,          \* multiselect "Inspection Category", in selection order
    f_insp,         \* multiselect "Inspector Name": [options, chosen]
    f_reply,        \* radio "Reply Status:"
    f_buffer,       \* select_slider "Deadline Buffer:"
    steps,          \* number of events so far (bounded by MaxSteps)
    view,           \* what the last script run left on the page
    \* ---- the functions of the script applied on their own ----
    arg,            \* the input drawn for the function
    res             \* its result, NoResult before it is applied

appVars == <<uploaded_file, today, sel, f_yn, f_cat, f_insp, f_reply, f_buffer,
             steps, view>>
unitVars == <<arg, res>>
vars == <<uploaded_file, today, sel, f_yn, f_cat, f_insp, f_reply, f_buffer,
          steps, view, arg, res>>

(***************************************************************************)
(* Texts                                                                   *)
(***************************************************************************)
Lower == <<"a","b","c","d","e","f","g","h","i","j","k","l","m",
           "n","o","p","q","r","s","t","u","v","w","x","y","z">>
Capital == <<"A","B","C","D","E","F","G","H","I","J","K","L","M",
             "N","O","P","Q","R","S","T","U","V","W","X","Y","Z">>

\* str.upper() of one character
UpperOf == [c \in {Lower[i] : i \in 1..26} |-> Capital[CHOOSE i \in 1..26 : Lower[i] = c]]
UpperChar(c) == IF c \in DOMAIN UpperOf THEN UpperOf[c] ELSE c

\* str.upper()
RECURSIVE UpperFrom(_, _)
UpperFrom(s, i) ==
    IF i > Len(s) THEN ""
    ELSE UpperChar(SubSeq(s, i, i)) \o UpperFrom(s, i + 1)

Upper(s) == UpperFrom(s, 1)

\* Python's  k in s  on strings
Contains(s, k) ==
    \E i \in 1..(Len(s) - Len(k) + 1) : SubSeq(s, i, i + Len(k) - 1) = k

\* any(t in s for t in terms)
ContainsAny(s, terms) == \E i \in 1..Len(terms) : Contains(s, terms[i])

Digits == <<"0","1","2","3","4","5","6","7","8","9">>
IsDigit(c) == \E i \in 1..10 : Digits[i] = c
DigitVal(c) == (CHOOSE i \in 1..10 : Digits[i] = c) - 1
DigitChar(n) == Digits[n + 1]

Pad2(n) == DigitChar(n \div 10) \o DigitChar(n % 10)
Pad4(n) == DigitChar(n \div 1000) \o DigitChar((n \div 100) % 10)
           \o DigitChar((n \div 10) % 10) \o DigitChar(n % 10)

(***************************************************************************)
(* Cell values                                                             *)
(***************************************************************************)
TextCell(s) == [t |-> "str", s |-> s]
DateCell(y, m, d) == [t |-> "date", y |-> y, m |-> m, d |-> d]
NaN == [t |-> "nan"]      \* the float NaN pandas gives an empty cell
NaT == [t |-> "nat"]      \* pandas' missing date
None == [t |-> "none"]    \* Python's None

\* pd.isna / pd.isnull / Series.isna of a scalar
isna(v) == v.t \in {"nan", "nat", "none"}

(***************************************************************************)
(* Calendar: datetime.date and dateutil.relativedelta                      *)
(***************************************************************************)
IsLeap(y) == (y % 4 = 0) /\ ((y % 100 # 0) \/ (y % 400 = 0))

DaysInMonth(y, m) ==
    IF m = 2 THEN (IF IsLeap(y) THEN 29 ELSE 28)
    ELSE IF m \in {4, 6, 9, 11} THEN 30 ELSE 31

RECURSIVE DaysBeforeMonth(_, _)
DaysBeforeMonth(y, m) ==
    IF m = 1 THEN 0 ELSE DaysBeforeMonth(y, m - 1) + DaysInMonth(y, m - 1)

DaysBeforeYear(y) ==
    LET p == y - 1 IN p * 365 + p \div 4 - p \div 100 + p \div 400

\* date.toordinal()
toordinal(dt) == DaysBeforeYear(dt.y) + DaysBeforeMonth(dt.y, dt.m) + dt.d

\* date + timedelta(days=n), n >= 0
RECURSIVE AddDays(_, _)
AddDays(dt, n) ==
    IF dt.d + n <= DaysInMonth(dt.y, dt.m)
    THEN DateCell(dt.y, dt.m, dt.d + n)
    ELSE AddDays(DateCell(IF dt.m = 12 THEN dt.y + 1 ELSE dt.y,
                          IF dt.m = 12 THEN 1 ELSE dt.m + 1, 1),
                 n - (DaysInMonth(dt.y, dt.m) - dt.d) - 1)

\* dt + relativedelta(years=years, months=months, days=days): the year and
\* the month move first, the day is cut to the target month's length, and
\* the days are added last.
relativedelta(dt, years, months, days) ==
    LET m0 == dt.m + months
        y1 == dt.y + years + (IF m0 > 12 THEN 1 ELSE 0)
        m1 == IF m0 > 12 THEN m0 - 12 ELSE m0
        d1 == IF dt.d <= DaysInMonth(y1, m1) THEN dt.d ELSE DaysInMonth(y1, m1)
    IN AddDays(DateCell(y1, m1, d1), days)

\* date.isoformat(), which str(date) returns
isoformat(dt) == Pad4(dt.y) \o "-" \o Pad2(dt.m) \o "-" \o Pad2(dt.d)

\* str(val) of a cell value
Str(v) ==
    CASE v.t = "str" -> v.s
      [] v.t = "nan" -> "nan"
      [] v.t = "nat" -> "NaT"
      [] v.t = "none" -> "None"
      [] v.t = "date" -> isoformat(v)

(***************************************************************************)
(* The date parser: pd.to_datetime(column, errors='coerce').dt.date.       *)
(* A date stays the date; a text in the ISO form YYYY-MM-DD that names a   *)
(* calendar day becomes that day; every other value becomes NaT.           *)
(***************************************************************************)
\* pd.Timestamp.min and pd.Timestamp.max, as days: the days a datetime64[ns]
\* value can name
TS_MIN == DateCell(1677, 9, 22)
TS_MAX == DateCell(2262, 4, 11)
InBounds(dt) == toordinal(TS_MIN) <= toordinal(dt) /\ toordinal(dt) <= toordinal(TS_MAX)

IsIsoShape(s) ==
    /\ Len(s) = 10
    /\ SubSeq(s, 5, 5) = "-"
    /\ SubSeq(s, 8, 8) = "-"
    /\ \A i \in {1, 2, 3, 4, 6, 7, 9, 10} : IsDigit(SubSeq(s, i, i))

Num(s, i) == DigitVal(SubSeq(s, i, i))

to_date(v) ==
    IF v.t = "date" THEN v
    ELSE IF v.t = "str" /\ IsIsoShape(v.s)
    THEN LET y == Num(v.s, 1) * 1000 + Num(v.s, 2) * 100 + Num(v.s, 3) * 10 + Num(v.s, 4)
             m == Num(v.s, 6) * 10 + Num(v.s, 7)
             d == Num(v.s, 9) * 10 + Num(v.s, 10)
         IN IF y >= 1 /\ m \in 1..12 /\ d >= 1 /\ d <= DaysInMonth(y, m)
               /\ InBounds(DateCell(y, m, d))
            THEN DateCell(y, m, d)
            ELSE NaT
    ELSE NaT

(***************************************************************************)
(* HeaderLocator: the header_row loops of the two reading branches         *)
(***************************************************************************)
NROWS == 15
CSV_DEFAULT_HEADER == 0
EXCEL_DEFAULT_HEADER == 4

\* row.astype(str).str.upper().tolist()
row_str(row) == [j \in 1..Len(row) |-> Upper(Str(row[j]))]

\* a variant that wants both words in one cell
RowIsHeader_one_cell(row) ==
    LET rs == row_str(row)
    IN \E j \in 1..Len(rs) : Contains(rs[j], "ANNUAL") /\ Contains(rs[j], "INSPECTION")

\* any("ANNUAL" in x for x in row_str) and any("INSPECTION" in x for x in row_str)
RowIsHeader(row) ==
    LET rs == row_str(row)
    IN /\ \E j \in 1..Len(rs) : Contains(rs[j], "ANNUAL")
       /\ \E j \in 1..Len(rs) : Contains(rs[j], "INSPECTION")

\* pd.read_csv / pd.read_excel (header=None, nrows=15)
Preview(rows) == SubSeq(rows, 1, IF Len(rows) < NROWS THEN Len(rows) ELSE NROWS)

\* for i, row in preview.iterrows(): ... header_row = i; break
\* (i is the 0-based row label; preview[i + 1] is that row)
RECURSIVE ScanPreview(_, _, _)
ScanPreview(preview, i, default) ==
    IF i >= Len(preview) THEN default
    ELSE IF RowIsHeader(preview[i + 1]) THEN i
    ELSE ScanPreview(preview, i + 1, default)

header_row(kind, rows) ==
    ScanPreview(Preview(rows), 0,
                IF kind = "csv" THEN CSV_DEFAULT_HEADER ELSE EXCEL_DEFAULT_HEADER)

(***************************************************************************)
(* ColumnResolver: find_col                                                *)
(***************************************************************************)
RECURSIVE FindColFrom(_, _, _, _)
FindColFrom(cols, i, terms, exclude_terms) ==
    IF i >= Len(cols) THEN 0
    ELSE LET c_upper == Upper(Str(cols[i + 1]))
         IN IF ContainsAny(c_upper, exclude_terms)
            THEN FindColFrom(cols, i + 1, terms, exclude_terms)
            ELSE IF ContainsAny(c_upper, terms) THEN i
            ELSE FindColFrom(cols, i + 1, terms, exclude_terms)

\* a variant that never skips an excluded column
find_col_no_exclude(cols, terms, exclude_terms) == FindColFrom(cols, 0, terms, <<>>)

find_col(cols, terms, exclude_terms) == FindColFrom(cols, 0, terms, exclude_terms)

\* the keyword lists of the four selectors
DATE_TERMS == <<"ANNUAL", "TARIKH PEMERIKSAAN">>
DATE_EXCLUDE == <<"1ST SCHEDULE", "JADUAL PERTAMA">>
STATUS_TERMS == <<"DEFECTS STATUS", "STATUS", "KEADAAN">>
REPLY_TERMS == <<"REPLY", "BALAS">>
INSP_TERMS == <<"INSPECTOR", "PEMERIKSA">>

(***************************************************************************)
(* DefectClassifier: categorize_defect                                     *)
(***************************************************************************)
NO_TOKENS == <<"NO DEFECT", "TIADA", "/", "SAFE", "OK", "GOOD">>
YES_TOKENS == <<"MAJOR", "MINOR", "NOTICE", "X", "YES", "ADA", "FAIL">>

\* a variant that tests the Yes tokens before the No tokens
categorize_defect_yes_first(val) ==
    LET s == Upper(Str(val))
    IN IF isna(val) \/ val = TextCell("") \/ s = "NAN" THEN "Blank"
       ELSE IF ContainsAny(s, YES_TOKENS) THEN "Yes"
       ELSE IF ContainsAny(s, NO_TOKENS) THEN "No"
       ELSE "Other"

categorize_defect(val) ==
    LET s == Upper(Str(val))
    IN IF isna(val) \/ val = TextCell("") \/ s = "NAN" THEN "Blank"
       ELSE IF ContainsAny(s, NO_TOKENS) THEN "No"
       ELSE IF ContainsAny(s, YES_TOKENS) THEN "Yes"
       ELSE "Other"

(***************************************************************************)
(* DeadlineCalculator: get_due_date, on row[c_date] and row[c_status]      *)
(***************************************************************************)
\* a variant that tests MINOR before MAJOR
get_due_date_minor_first(start, status) ==
    LET stat == Upper(Str(status))
    IN IF isna(start) THEN None
       ELSE IF Contains(stat, "MINOR") THEN relativedelta(start, 0, 3, 0)
       ELSE IF Contains(stat, "MAJOR") THEN relativedelta(start, 0, 1, 0)
       ELSE IF Contains(stat, "NOTICE") THEN relativedelta(start, 0, 0, 14)
       ELSE relativedelta(start, 1, 0, 0)

get_due_date(start, status) ==
    LET stat == Upper(Str(status))
    IN IF isna(start) THEN None
       ELSE IF Contains(stat, "MAJOR") THEN relativedelta(start, 0, 1, 0)
       ELSE IF Contains(stat, "MINOR") THEN relativedelta(start, 0, 3, 0)
       ELSE IF Contains(stat, "NOTICE") THEN relativedelta(start, 0, 0, 14)
       ELSE relativedelta(start, 1, 0, 0)

(***************************************************************************)
(* RemainingTimeComputer: the 'Days Left' column                           *)
(***************************************************************************)
IntCell(n) == [t |-> "int", n |-> n]

\* a variant that fills the missing days with 0
days_left_filled(due, day) ==
    IF isna(due) THEN IntCell(0) ELSE IntCell(toordinal(due) - toordinal(day))

\* (pd.to_datetime(due) - pd.to_datetime(date.today())).dt.days
days_left(due, day) ==
    IF isna(due) THEN NaN ELSE IntCell(toordinal(due) - toordinal(day))

(***************************************************************************)
(* FILE READING: lines 21-63.  A file is its kind, what goes wrong when    *)
(* it is decoded, and its rows of cells as the decoder delivers them.      *)
(***************************************************************************)
NoFile == [kind |-> "none", fault |-> "none", rows |-> <<>>]

\* rows[h + 1] is the header row; the rows after it are the data
Labels(rows, h) == rows[h + 1]
Data(rows, h) == SubSeq(rows, h + 2, Len(rows))

ReadOk(file, h) ==
    [ok |-> TRUE, error |-> "", warnings |-> <<>>, header |-> h,
     cols |-> Labels(file.rows, h), data |-> Data(file.rows, h)]
ReadFailed(error, warnings) ==
    [ok |-> FALSE, error |-> error, warnings |-> warnings, header |-> 0,
     cols |-> <<>>, data |-> <<>>]

\* the CSV branch: whatever read_csv raises reaches the outer except
read_csv(file) ==
    LET h == header_row("csv", file.rows)
    IN IF file.fault # "none" \/ h >= Len(file.rows)
       THEN ReadFailed("Critical Error", <<>>)
       ELSE ReadOk(file, h)

\* the Excel branch, with its own two handlers
read_excel(file) ==
    LET h == header_row("xlsx", file.rows)
    IN IF file.fault = "noengine"
       THEN ReadFailed("Missing 'openpyxl' library.", <<"Quick Fix">>)
       ELSE IF file.fault # "none" \/ h >= Len(file.rows)
       THEN ReadFailed("Error reading Excel", <<"Quick Fix">>)
       ELSE ReadOk(file, h)

ReadFile(file) == IF file.kind = "csv" THEN read_csv(file) ELSE read_excel(file)

(***************************************************************************)
(* MAP COLUMNS: the four selectboxes and their default indices             *)
(***************************************************************************)
Roles == {"date", "status", "reply", "insp"}

DefaultIdx(cols) ==
    [date |-> find_col(cols, DATE_TERMS, DATE_EXCLUDE),
     status |-> find_col(cols, STATUS_TERMS, <<>>),
     reply |-> find_col(cols, REPLY_TERMS, <<>>),
     insp |-> find_col(cols, INSP_TERMS, <<>>)]

NoSel == [cols |-> <<>>, idx |-> DefaultIdx(<<>>)]

(***************************************************************************)
(* DATA PROCESSING: lines 93-120.  A row of the frame is its index label,  *)
(* its cells and the three derived columns.                                *)
(***************************************************************************)
\* for c in [c_date, c_reply]: df[c] = pd.to_datetime(df[c], ...).dt.date
\* The column is overwritten in place, whichever roles share it.
CleanDates(cells, idx) ==
    [j \in 1..Len(cells) |->
        IF j - 1 \in {idx.date, idx.reply} THEN to_date(cells[j]) ELSE cells[j]]

DeriveRow(label, raw, idx, day) ==
    LET cells == CleanDates(raw, idx)
        due == get_due_date(cells[idx.date + 1], cells[idx.status + 1])
    IN [idx |-> label,
        cells |-> cells,
        defect |-> categorize_defect(cells[idx.status + 1]),
        due |-> due,
        days |-> days_left(due, day)]

DeriveRows(data, idx, day) ==
    [i \in 1..Len(data) |-> DeriveRow(i - 1, data[i], idx, day)]

\* pd.to_datetime(df['Due Date']) raises OutOfBoundsDatetime for a due date
\* past pd.Timestamp.max
Overflows(data, idx) ==
    \E i \in 1..Len(data) :
        LET cells == CleanDates(data[i], idx)
            due == get_due_date(cells[idx.date + 1], cells[idx.status + 1])
        IN ~isna(due) /\ ~InBounds(due)

(***************************************************************************)
(* FILTERS: lines 122-148                                                  *)
(***************************************************************************)
DEFECT_OPTIONS == <<"Yes", "No", "Blank", "Other">>
status_types == <<"Major", "Minor", "Notice", "No Defect">>
REPLY_OPTIONS == <<"All", "Replied", "Not Replied">>
BUFFER_OPTIONS == <<"All", "Overdue", "1 Month", "3 Months">>

Range(q) == {q[i] : i \in 1..Len(q)}

\* Series < k, Series >= k, Series <= k: False on NaN
lt(v, k) == v.t = "int" /\ v.n < k
ge(v, k) == v.t = "int" /\ v.n >= k
le(v, k) == v.t = "int" /\ v.n <= k

\* if f_yn: df = df[df['Defect Found?'].isin(f_yn)]
FilterYN(df, fyn) ==
    LET keep(r) == r.defect \in fyn
    IN IF fyn = {} THEN df ELSE SelectSeq(df, keep)

\* df[c_status].astype(str).str.contains(cat, case=False, na=False)
StatusContains(r, col, cat) == Contains(Upper(Str(r.cells[col + 1])), Upper(cat))

\* mask = pd.Series([False] * len(df)); mask = mask | ...; df = df[mask]
\* The mask is labelled 0..len(df)-1 while df keeps the labels of the rows
\* that are left.  pandas aligns the two operands of | on their labels: a
\* label the mask lacks gets NaN on the left, and NaN | x is False; a label
\* the right operand lacks gets False on the right.  After the first | the
\* mask holds every label of df.
FilterCat(df, col, fcat) ==
    LET n0 == Len(df)
        keep(r) == \/ r.idx < n0 /\ StatusContains(r, col, fcat[1])
                   \/ \E k \in 2..Len(fcat) : StatusContains(r, col, fcat[k])
    IN IF fcat = <<>> THEN df ELSE SelectSeq(df, keep)

\* df[c_insp].astype(str).unique(), in the order of first appearance
RECURSIVE Unique(_)
Unique(q) ==
    IF q = <<>> THEN <<>>
    ELSE LET front == Unique(SubSeq(q, 1, Len(q) - 1))
             x == q[Len(q)]
         IN IF x \in Range(front) THEN front ELSE Append(front, x)

InspOptions(df, col) == Unique([i \in 1..Len(df) |-> Str(df[i].cells[col + 1])])

\* if f_insp: df = df[df[c_insp].astype(str).isin(f_insp)]
FilterInsp(df, col, chosen) ==
    LET keep(r) == Str(r.cells[col + 1]) \in chosen
    IN IF chosen = {} THEN df ELSE SelectSeq(df, keep)

FilterReply(df, col, freply) ==
    LET replied(r) == ~isna(r.cells[col + 1])
        unreplied(r) == isna(r.cells[col + 1])
    IN IF freply = "Replied" THEN SelectSeq(df, replied)
       ELSE IF freply = "Not Replied" THEN SelectSeq(df, unreplied)
       ELSE df

\* a variant whose Overdue bucket is "not on time", which NaN passes
FilterBuffer_not_on_time(df, fbuffer) ==
    LET overdue(r) == ~ge(r.days, 0)
        month(r) == ge(r.days, 0) /\ le(r.days, 30)
        quarter(r) == ge(r.days, 0) /\ le(r.days, 90)
    IN IF fbuffer = "Overdue" THEN SelectSeq(df, overdue)
       ELSE IF fbuffer = "1 Month" THEN SelectSeq(df, month)
       ELSE IF fbuffer = "3 Months" THEN SelectSeq(df, quarter)
       ELSE df

FilterBuffer(df, fbuffer) ==
    LET overdue(r) == lt(r.days, 0)
        month(r) == ge(r.days, 0) /\ le(r.days, 30)
        quarter(r) == ge(r.days, 0) /\ le(r.days, 90)
    IN IF fbuffer = "Overdue" THEN SelectSeq(df, overdue)
       ELSE IF fbuffer = "1 Month" THEN SelectSeq(df, month)
       ELSE IF fbuffer = "3 Months" THEN SelectSeq(df, quarter)
       ELSE df

(***************************************************************************)
(* MAIN DISPLAY: lines 150-184                                             *)
(***************************************************************************)
Count(df, Test(_)) == Cardinality({i \in 1..Len(df) : Test(df[i])})

\* a variant that counts every record not of category No as a defect
Metrics_not_no(df) ==
    LET yes(r) == r.defect # "No"
        overdue(r) == lt(r.days, 0)
    IN << [label |-> "Filtered Rows", value |-> Len(df)],
          [label |-> "Defects (Yes)", value |-> Count(df, yes)],
          [label |-> "Urgent (Overdue)", value |-> Count(df, overdue)] >>

Metrics(df) ==
    LET yes(r) == r.defect = "Yes"
        overdue(r) == lt(r.days, 0)
    IN << [label |-> "Filtered Rows", value |-> Len(df)],
          [label |-> "Defects (Yes)", value |-> Count(df, yes)],
          [label |-> "Urgent (Overdue)", value |-> Count(df, overdue)] >>

\* list(dict.fromkeys(desired_cols)), the selected columns by their labels
show_cols(cols, idx) ==
    Unique(<<Str(cols[idx.date + 1]), Str(cols[idx.status + 1]), "Defect Found?",
             "Due Date", "Days Left", Str(cols[idx.reply + 1]),
             Str(cols[idx.insp + 1])>>)

style_rows(r) ==
    IF lt(r.days, 0) THEN "red"
    ELSE IF lt(r.days, 30) THEN "yellow"
    ELSE ""

(***************************************************************************)
(* One run of the script, top to bottom.  The result is the page it leaves *)
(* and the widget values the session keeps: a widget keeps its value while *)
(* it is drawn again with the same options, and loses it otherwise.        *)
(***************************************************************************)
BlankView ==
    [stage |-> "idle", failed |-> "none", caught |-> FALSE, errors |-> <<>>,
     warnings |-> <<>>, loaded |-> FALSE, day |-> NaT, metrics |-> <<>>,
     columns |-> <<>>, table |-> <<>>, styles |-> <<>>]

NoInsp == [options |-> <<>>, chosen |-> {}]

Outcome(v, s, fyn, fcat, finsp, freply, fbuffer) ==
    [view |-> v, sel |-> s, f_yn |-> fyn, f_cat |-> fcat, f_insp |-> finsp,
     f_reply |-> freply, f_buffer |-> fbuffer]

Failed(stage, caught, errors, warnings, loaded, day) ==
    [BlankView EXCEPT !.stage = stage, !.failed = IF caught THEN "ingestion" ELSE "derivation",
                      !.caught = caught, !.errors = errors, !.warnings = warnings,
                      !.loaded = loaded, !.day = day]

\* lines 150-184: the metrics and the table of the filtered frame
Display(cols, idx, day, df, fyn, fcat, finsp, freply, fbuffer) ==
    Outcome([BlankView EXCEPT !.stage = "shown", !.loaded = TRUE, !.day = day,
                              !.metrics = Metrics(df),
                              !.columns = show_cols(cols, idx),
                              !.table = df,
                              !.styles = [i \in 1..Len(df) |-> style_rows(df[i])]],
            [cols |-> cols, idx |-> idx], fyn, fcat, finsp, freply, fbuffer)

\* lines 138-148: the inspector, reply and buffer filters.  The inspector
\* multiselect is drawn with the names left in the frame; the selection
\* made among other options is gone.
AfterCategory(cols, idx, day, df, opts, fyn, fcat, finsp, freply, fbuffer) ==
    Display(cols, idx, day,
            FilterBuffer(
                FilterReply(
                    FilterInsp(df, idx.insp,
                               IF finsp.options = opts THEN finsp.chosen ELSE {}),
                    idx.reply, freply),
                fbuffer),
            fyn, fcat,
            [options |-> opts, chosen |-> IF finsp.options = opts THEN finsp.chosen ELSE {}],
            freply, fbuffer)

\* lines 127-136: the defect and category filters
Filtered(cols, idx, day, df, fyn, fcat, finsp, freply, fbuffer) ==
    AfterCategory(cols, idx, day, df, InspOptions(df, idx.insp),
                  fyn, fcat, finsp, freply, fbuffer)

\* lines 93-120: the derived columns; line 120 is outside every try block
Mapped(cols, data, idx, day, fyn, fcat, finsp, freply, fbuffer) ==
    IF Overflows(data, idx)
    THEN Outcome(Failed("crash", FALSE, <<>>, <<>>, TRUE, day),
                 [cols |-> cols, idx |-> idx], {}, <<>>, NoInsp, "All", "All")
    ELSE Filtered(cols, idx, day,
                  FilterCat(FilterYN(DeriveRows(data, idx, day), fyn), idx.status, fcat),
                  fyn, fcat, finsp, freply, fbuffer)

\* lines 61-91: a failed read is reported and the run stops; otherwise the
\* selectboxes keep their values when the columns are the same
Loaded(rd, day, s, fyn, fcat, finsp, freply, fbuffer) ==
    IF ~rd.ok
    THEN Outcome(Failed("read_error", TRUE, <<rd.error>>, rd.warnings, FALSE, NaT),
                 NoSel, {}, <<>>, NoInsp, "All", "All")
    ELSE Mapped(rd.cols, rd.data,
                IF s.cols = rd.cols THEN s.idx ELSE DefaultIdx(rd.cols),
                day, fyn, fcat, finsp, freply, fbuffer)

Script(file, day, s, fyn, fcat, finsp, freply, fbuffer) ==
    IF file = NoFile
    THEN Outcome(BlankView, NoSel, {}, <<>>, NoInsp, "All", "All")
    ELSE Loaded(ReadFile(file), day, s, fyn, fcat, finsp, freply, fbuffer)

(***************************************************************************)
(* The files of the model                                                  *)
(***************************************************************************)
T(s) == TextCell(s)

\* a CSV report: a title line, the header, four inspections
FileA ==
    [kind |-> "csv", fault |-> "none", rows |-> <<
        <<T("JKKP report"), NaN, NaN, NaN>>,
        <<T("Annual Inspection Date"), T("Status"), T("Reply Date"), T("Inspector")>>,
        <<T("2024-01-15"), T("MAJOR DEFECT FOUND"), NaN, T("Ali")>>,
        <<T("2024-01-31"), T("No Defect"), T("2024-02-10"), T("Siti")>>,
        <<T("pending"), T("Minor"), NaN, T("Ali")>>,
        <<T("2023-12-01"), T("minor / ok"), T("2024-01-05"), T("Siti")>> >>]

\* an Excel report in Malay: no row names ANNUAL and INSPECTION, the header
\* is on the default row
FileB ==
    [kind |-> "xlsx", fault |-> "none", rows |-> <<
        <<T("JKKP"), NaN, NaN, NaN>>,
        <<NaN, NaN, NaN, NaN>>,
        <<T("Laporan"), NaN, NaN, NaN>>,
        <<NaN, NaN, NaN, NaN>>,
        <<T("Tarikh Pemeriksaan"), T("Keadaan"), T("Balas"), T("Pemeriksa")>>,
        <<T("2024-02-10"), T("Notice"), NaN, T("Ali")>>,
        <<T("2023-11-30"), T("Tiada"), T("2023-12-05"), T("Ali")>>,
        <<NaN, NaN, NaN, NaN>> >>]

\* a CSV file without a date column: every heuristic but the inspector's
\* falls back to column 0
FileC ==
    [kind |-> "csv", fault |-> "none", rows |-> <<
        <<T("Remarks"), T("Inspector")>>,
        <<T("Major"), T("Ali")>>,
        <<T("OK"), T("Siti")>>,
        <<T("2024-02-01"), T("Ali")>> >>]

\* an Excel file on a host without openpyxl
FileD == [kind |-> "xlsx", fault |-> "noengine", rows |-> FileB.rows]

\* an Excel file shorter than the default header row
FileE ==
    [kind |-> "xlsx", fault |-> "none", rows |-> <<
        <<T("Date"), T("Status")>>,
        <<T("2024-01-15"), T("Major")>> >>]

\* a CSV file that cannot be decoded
FileF == [kind |-> "csv", fault |-> "unreadable", rows |-> <<>>]

\* a CSV file with an inspection in the last year a Timestamp can name
FileG ==
    [kind |-> "csv", fault |-> "none", rows |-> <<
        <<T("Annual Inspection Date"), T("Status")>>,
        <<T("2262-01-01"), T("OK")>>,
        <<T("2024-01-15"), T("Major")>> >>]

Files == {FileA, FileB, FileC, FileD, FileE, FileF, FileG}

(***************************************************************************)
(* The session: every user action re-runs the script                       *)
(***************************************************************************)
MaxSteps == 3
Today0 == DateCell(2024, 2, 20)
NoArg == [op |-> "none"]

\* the session before any file is uploaded
AppIdle ==
    /\ uploaded_file = NoFile
    /\ today = Today0
    /\ sel = NoSel
    /\ f_yn = {}
    /\ f_cat = <<>>
    /\ f_insp = NoInsp
    /\ f_reply = "All"
    /\ f_buffer = "All"
    /\ steps = 0
    /\ view = BlankView

Init == AppIdle /\ arg = NoArg /\ res = <<>>

Rerun(file, s, fyn, fcat, finsp, freply, fbuffer) ==
    /\ steps < MaxSteps
    /\ \E out \in {Script(file, today, s, fyn, fcat, finsp, freply, fbuffer)} :
           /\ steps' = steps + 1
           /\ uploaded_file' = file
           /\ view' = out.view
           /\ sel' = out.sel
           /\ f_yn' = out.f_yn
           /\ f_cat' = out.f_cat
           /\ f_insp' = out.f_insp
           /\ f_reply' = out.f_reply
           /\ f_buffer' = out.f_buffer
           /\ UNCHANGED <<today, arg, res>>

Upload(file) ==
    /\ file # uploaded_file
    /\ Rerun(file, sel, f_yn, f_cat, f_insp, f_reply, f_buffer)

RemoveFile ==
    /\ uploaded_file # NoFile
    /\ Rerun(NoFile, sel, f_yn, f_cat, f_insp, f_reply, f_buffer)

\* a mapping override
SelectColumn(role, i) ==
    /\ view.loaded
    /\ i \in 0..(Len(sel.cols) - 1)
    /\ sel.idx[role] # i
    /\ Rerun(uploaded_file, [sel EXCEPT !.idx[role] = i],
             f_yn, f_cat, f_insp, f_reply, f_buffer)

ToggleDefect(c) ==
    /\ view.stage = "shown"
    /\ Rerun(uploaded_file, sel, IF c \in f_yn THEN f_yn \ {c} ELSE f_yn \cup {c},
             f_cat, f_insp, f_reply, f_buffer)

SelectCategory(cat) ==
    /\ view.stage = "shown"
    /\ cat \notin Range(f_cat)
    /\ Rerun(uploaded_file, sel, f_yn, Append(f_cat, cat), f_insp, f_reply, f_buffer)

DeselectCategory(cat) ==
    LET other(c) == c # cat
    IN /\ view.stage = "shown"
       /\ cat \in Range(f_cat)
       /\ Rerun(uploaded_file, sel, f_yn, SelectSeq(f_cat, other), f_insp,
                f_reply, f_buffer)

ToggleInspector(name) ==
    /\ view.stage = "shown"
    /\ name \in Range(f_insp.options)
    /\ Rerun(uploaded_file, sel, f_yn, f_cat,
             [f_insp EXCEPT !.chosen = IF name \in @ THEN @ \ {name} ELSE @ \cup {name}],
             f_reply, f_buffer)

SetReply(mode) ==
    /\ view.stage = "shown"
    /\ mode # f_reply
    /\ Rerun(uploaded_file, sel, f_yn, f_cat, f_insp, mode, f_buffer)

SetBuffer(bucket) ==
    /\ view.stage = "shown"
    /\ bucket # f_buffer
    /\ Rerun(uploaded_file, sel, f_yn, f_cat, f_insp, f_reply, bucket)

Next ==
    \/ \E file \in Files : Upload(file)
    \/ RemoveFile
    \/ \E role \in Roles, i \in 0..3 : SelectColumn(role, i)
    \/ \E c \in Range(DEFECT_OPTIONS) : ToggleDefect(c)
    \/ \E cat \in Range(status_types) : SelectCategory(cat)
    \/ \E cat \in Range(status_types) : DeselectCategory(cat)
    \/ \E name \in Range(f_insp.options) : ToggleInspector(name)
    \/ \E mode \in Range(REPLY_OPTIONS) : SetReply(mode)
    \/ \E bucket \in Range(BUFFER_OPTIONS) : SetBuffer(bucket)

Spec == Init /\ [][Next]_vars

(***************************************************************************)
(* The functions applied on their own: the inputs are drawn in the initial *)
(* state and one action applies the function to them.                      *)
(***************************************************************************)
YearSpan == 1
MaxPreviewRows == 3
MaxCols == 3

RECURSIVE SeqsUpTo(_, _)
SeqsUpTo(S, n) ==
    IF n = 0 THEN {<<>>}
    ELSE LET shorter == SeqsUpTo(S, n - 1)
         IN shorter \cup {Append(q, x) : q \in {r \in shorter : Len(r) = n - 1}, x \in S}

UnitWords == {"Major", "MINOR", "notice", "No Defect", "ok", "Tiada",
              "x", "fail", "nan", "pending", "/", "yes"}
UnitTexts == {""} \cup UnitWords \cup {a \o " " \o b : a \in UnitWords, b \in UnitWords}
UnitValues == {TextCell(s) : s \in UnitTexts}
                \cup {NaN, NaT, None, DateCell(2024, 1, 15)}

UnitDueWords == {"Major", "MINOR", "notice", "No Defect", "ok"}
UnitStatuses == {TextCell(s) : s \in {""} \cup UnitDueWords
                                \cup {a \o " " \o b : a \in UnitDueWords, b \in UnitDueWords}}
                  \cup {NaN, DateCell(2024, 1, 15)}
UnitDates == {DateCell(y, m, d) : y \in 2023..(2023 + YearSpan), m \in 1..12,
                                  d \in {1, 15, 18, 28, 29, 30, 31}}
UnitStarts == {dt \in UnitDates : dt.d <= DaysInMonth(dt.y, dt.m)} \cup {NaT}

UnitRows == { <<TextCell("Report 2024"), NaN>>,
              <<TextCell("ID"), TextCell("Annual Inspection Date")>>,
              <<TextCell("Annual"), TextCell("Inspection")>>,
              <<TextCell("Tarikh"), TextCell("Status")>>,
              <<TextCell("annual leave"), TextCell("x")>>,
              <<TextCell("inspection"), NaN>> }
FillerRow == <<TextCell("JKKP"), NaN>>
UnitFiles == {[i \in 1..pad |-> FillerRow] \o rows :
                 pad \in {0, NROWS - 2}, rows \in SeqsUpTo(UnitRows, MaxPreviewRows)}

UnitLabels == {TextCell("ID"), TextCell("1st Schedule Annual Inspection"),
               TextCell("Annual Inspection Date"), TextCell("Status"),
               TextCell("Reply Date"), TextCell("Tarikh Pemeriksaan"),
               TextCell("Jadual Pertama Tarikh Pemeriksaan")}
UnitKeywords == { [terms |-> DATE_TERMS, exclude |-> DATE_EXCLUDE],
                  [terms |-> STATUS_TERMS, exclude |-> <<>>],
                  [terms |-> REPLY_TERMS, exclude |-> <<>>],
                  [terms |-> INSP_TERMS, exclude |-> <<>>],
                  [terms |-> <<"ANNUAL">>, exclude |-> <<"1ST SCHEDULE">>] }

UnitInit ==
    /\ AppIdle
    /\ res = <<>>
    /\ \/ \E d \in UnitStarts, st \in UnitStatuses :
              arg = [op |-> "due", start |-> d, status |-> st]
       \/ \E v \in UnitValues : arg = [op |-> "classify", val |-> v]
       \/ \E k \in {"csv", "xlsx"}, rows \in UnitFiles :
              arg = [op |-> "locate", kind |-> k, rows |-> rows]
       \/ \E cols \in SeqsUpTo(UnitLabels, MaxCols), kw \in UnitKeywords :
              arg = [op |-> "find_col", cols |-> cols, terms |-> kw.terms,
                     exclude |-> kw.exclude]

ApplyDue ==
    /\ arg.op = "due" /\ res = <<>>
    /\ res' = <<get_due_date(arg.start, arg.status)>>
    /\ UNCHANGED <<arg, appVars>>

ApplyClassify ==
    /\ arg.op = "classify" /\ res = <<>>
    /\ res' = <<categorize_defect(arg.val)>>
    /\ UNCHANGED <<arg, appVars>>

ApplyLocate ==
    /\ arg.op = "locate" /\ res = <<>>
    /\ res' = <<header_row(arg.kind, arg.rows)>>
    /\ UNCHANGED <<arg, appVars>>

ApplyFindCol ==
    /\ arg.op = "find_col" /\ res = <<>>
    /\ res' = <<find_col(arg.cols, arg.terms, arg.exclude)>>
    /\ UNCHANGED <<arg, appVars>>

UnitNext == ApplyDue \/ ApplyClassify \/ ApplyLocate \/ ApplyFindCol

UnitSpec == UnitInit /\ [][UnitNext]_vars

(***************************************************************************)
(* Properties of the functions                                             *)
(***************************************************************************)
SetMin(S) == CHOOSE x \in S : \A y \in S : x <= y

\* the calendar day k whole months after dt, cut to the month's last day
C1_MonthsLater(dt, k) ==
    LET total == dt.y * 12 + (dt.m - 1) + k
        y == total \div 12
        m == (total % 12) + 1
    IN DateCell(y, m, SetMin({dt.d, DaysInMonth(y, m)}))

C1_Keywords == <<"MAJOR", "MINOR", "NOTICE">>

\* the number of the first rule whose keyword the status holds, 4 if none
C1_FirstRule(stat) ==
    LET hits == {i \in 1..3 : Contains(stat, C1_Keywords[i])}
    IN IF hits = {} THEN 4 ELSE SetMin(hits)

\* C1: with a non-null inspection date the due date is the inspection date
\* plus the offset of the first rule, in the order MAJOR (+1 calendar month),
\* MINOR (+3 calendar months), NOTICE (+14 days), otherwise +1 calendar year,
\* whose keyword the uppercased status holds; month and year offsets keep the
\* day of the month, cut to the last day of the target month.
C1_DueDateRule ==
    (arg.op = "due" /\ Len(res) = 1 /\ ~isna(arg.start)) =>
        LET rule == C1_FirstRule(Upper(Str(arg.status)))
            due == res[1]
        IN /\ due.t = "date"
           /\ rule = 1 => due = C1_MonthsLater(arg.start, 1)
           /\ rule = 2 => due = C1_MonthsLater(arg.start, 3)
           /\ rule = 3 => /\ due.m \in 1..12
                          /\ due.d \in 1..DaysInMonth(due.y, due.m)
                          /\ toordinal(due) = toordinal(arg.start) + 14
           /\ rule = 4 => due = DateCell(arg.start.y + 1, arg.start.m,
                                  SetMin({arg.start.d,
                                          DaysInMonth(arg.start.y + 1, arg.start.m)}))

\* 31 January of a leap year, a status naming both MAJOR and MINOR: due on
\* 29 February
C1_Witness ==
    /\ arg.op = "due" /\ Len(res) = 1
    /\ arg.start = DateCell(2024, 1, 31)
    /\ arg.status = TextCell("MINOR Major")
    /\ res[1] = DateCell(2024, 2, 29)

C3_NoTokens == {"NO DEFECT", "TIADA", "/", "SAFE", "OK", "GOOD"}
C3_YesTokens == {"MAJOR", "MINOR", "NOTICE", "X", "YES", "ADA", "FAIL"}

\* C3: the classifier returns exactly one of Blank, No, Yes, Other, in the
\* priority Blank > No > Yes > Other: a null, empty or "NAN" value is Blank;
\* otherwise a text holding a No token is No, even when it also holds a Yes
\* token; otherwise a text holding a Yes token is Yes; otherwise Other.
C3_ClassifierPriority ==
    (arg.op = "classify" /\ Len(res) = 1) =>
        LET v == arg.val
            s == Upper(Str(v))
            blank == v.t \in {"nan", "nat", "none"} \/ (v.t = "str" /\ Len(v.s) = 0)
                        \/ s = "NAN"
            no == \E t \in C3_NoTokens : Contains(s, t)
            yes == \E t \in C3_YesTokens : Contains(s, t)
        IN /\ res[1] \in {"Blank", "No", "Yes", "Other"}
           /\ res[1] = "Blank" <=> blank
           /\ res[1] = "No" <=> (~blank /\ no)
           /\ res[1] = "Yes" <=> (~blank /\ ~no /\ yes)
           /\ res[1] = "Other" <=> (~blank /\ ~no /\ ~yes)

\* a text holding a Yes token and a No token is No
C3_Witness ==
    /\ arg.op = "classify" /\ Len(res) = 1
    /\ arg.val = TextCell("Major ok")
    /\ res[1] = "No"

\* the anchor rule as the specification words it
C6_SpecAnchor(row) ==
    LET rs == row_str(row)
    IN \/ \E j \in 1..Len(rs) : Contains(rs[j], "ANNUAL") /\ Contains(rs[j], "INSPECTION")
       \/ \E j \in 1..Len(rs) : Contains(rs[j], "TARIKH")

\* C6 as stated: the result is the index of the first row with one cell
\* holding both ANNUAL and INSPECTION, or a cell holding TARIKH, and one
\* default index, the same for both kinds of file, when no row is such.
C6_AsStated ==
    (arg.op = "locate" /\ Len(res) = 1) =>
        LET pv == Preview(arg.rows)
            hits == {i \in 0..(Len(pv) - 1) : C6_SpecAnchor(pv[i + 1])}
            out(k) == IF k = arg.kind THEN res[1] ELSE header_row(k, arg.rows)
        IN IF hits # {}
           THEN res[1] = SetMin(hits)
           ELSE \E default \in {CSV_DEFAULT_HEADER, EXCEL_DEFAULT_HEADER} :
                    \A k \in {"csv", "xlsx"} : out(k) = default

\* C6 (amended): the result is the index of the first of the first 15 rows
\* in which some cell holds ANNUAL and some cell, the same or another, holds
\* INSPECTION (uppercased texts); when no such row exists it is 0 for a CSV
\* file and 4 for an Excel file.
C6_HeaderLocator ==
    (arg.op = "locate" /\ Len(res) = 1) =>
        LET hits == {i \in 0..(Len(arg.rows) - 1) :
                        /\ i < 15
                        /\ \E j \in 1..Len(arg.rows[i + 1]) :
                               Contains(Upper(Str(arg.rows[i + 1][j])), "ANNUAL")
                        /\ \E j \in 1..Len(arg.rows[i + 1]) :
                               Contains(Upper(Str(arg.rows[i + 1][j])), "INSPECTION")}
        IN res[1] = IF hits # {} THEN SetMin(hits)
                    ELSE IF arg.kind = "csv" THEN 0 ELSE 4

\* a TARIKH row is passed over and the row with ANNUAL and INSPECTION in two
\* cells is taken
C6_Witness ==
    /\ arg.op = "locate" /\ Len(res) = 1
    /\ arg.rows = << <<TextCell("Tarikh"), TextCell("Status")>>,
                     <<TextCell("Annual"), TextCell("Inspection")>> >>
    /\ res[1] = 1

\* C7: the resolved index is the smallest index of a column whose uppercased
\* label holds an include keyword and no exclude keyword, and 0 when there
\* is none; for a non-empty list of labels it is an index of the list.
C7_ColumnResolver ==
    (arg.op = "find_col" /\ Len(res) = 1) =>
        LET n == Len(arg.cols)
            label(i) == Upper(Str(arg.cols[i + 1]))
            ok == {i \in 0..(n - 1) :
                      /\ \E t \in 1..Len(arg.terms) : Contains(label(i), arg.terms[t])
                      /\ \A e \in 1..Len(arg.exclude) : ~Contains(label(i), arg.exclude[e])}
        IN /\ res[1] = IF ok # {} THEN SetMin(ok) ELSE 0
           /\ n > 0 => res[1] \in 0..(n - 1)

\* the excluded "1st Schedule" column is passed over
C7_Witness ==
    /\ arg.op = "find_col" /\ Len(res) = 1
    /\ arg.cols = <<TextCell("ID"), TextCell("1st Schedule Annual Inspection"),
                    TextCell("Annual Inspection Date")>>
    /\ arg.terms = <<"ANNUAL">> /\ arg.exclude = <<"1ST SCHEDULE">>
    /\ res[1] = 2

(***************************************************************************)
(* Properties of the session                                               *)
(***************************************************************************)
\* the RawTable of the uploaded file, and the schema the last run used
RawTable == ReadFile(uploaded_file).data
Shown == view.stage = "shown"
ShownLabels == {view.table[i].idx : i \in 1..Len(view.table)}
IsNull(v) == v.t \in {"nan", "nat", "none"}

\* C2: in every record of the table, the inspection date is null exactly
\* when the due date is null, and the due date is null exactly when the
\* days remaining are null; a date cell that cannot be parsed is a null
\* inspection date.
C2_NullLinks ==
    Shown =>
        \A i \in 1..Len(view.table) :
            LET r == view.table[i]
                inspectionDate == r.cells[sel.idx.date + 1]
                rawDate == RawTable[r.idx + 1][sel.idx.date + 1]
            IN /\ IsNull(inspectionDate) <=> IsNull(r.due)
               /\ IsNull(r.due) <=> IsNull(r.days)
               /\ (rawDate.t = "str" /\ ~IsIsoShape(rawDate.s)) => IsNull(inspectionDate)

\* a table with a dated record and a record whose date cell is no date
C2_Witness ==
    /\ Shown
    /\ \E i, j \in 1..Len(view.table) :
           /\ view.table[i].cells[sel.idx.date + 1].t = "date"
           /\ view.table[i].days.t = "int"
           /\ RawTable[view.table[j].idx + 1][sel.idx.date + 1] = TextCell("pending")
           /\ view.table[j].days = NaN

\* the frame of all records, and the five predicates of the filters
AllRecords == DeriveRows(RawTable, sel.idx, view.day)

C4_Defect(r) == f_yn = {} \/ r.defect \in f_yn
C4_Category(r) ==
    f_cat = <<>> \/ \E k \in 1..Len(f_cat) :
                        Contains(Upper(Str(r.cells[sel.idx.status + 1])), Upper(f_cat[k]))
C4_Inspector(r) ==
    f_insp.chosen = {} \/ Str(r.cells[sel.idx.insp + 1]) \in f_insp.chosen
C4_Reply(r) ==
    \/ f_reply = "All"
    \/ f_reply = "Replied" /\ ~IsNull(r.cells[sel.idx.reply + 1])
    \/ f_reply = "Not Replied" /\ IsNull(r.cells[sel.idx.reply + 1])
InBucket(days, bucket) ==
    \/ bucket = "All"
    \/ bucket = "Overdue" /\ days.t = "int" /\ days.n < 0
    \/ bucket = "1 Month" /\ days.t = "int" /\ 0 <= days.n /\ days.n <= 30
    \/ bucket = "3 Months" /\ days.t = "int" /\ 0 <= days.n /\ days.n <= 90
C4_Buffer(r) == InBucket(r.days, f_buffer)

\* C4 as stated: whatever the selections of the five filters, the table
\* holds exactly the records that satisfy every one of the five predicates
\* (the one result every order of application is said to give).
C4_AsStated ==
    Shown =>
        LET all == AllRecords
        IN ShownLabels = {all[i].idx : i \in {j \in 1..Len(all) :
                              /\ C4_Defect(all[j]) /\ C4_Category(all[j])
                              /\ C4_Inspector(all[j]) /\ C4_Reply(all[j])
                              /\ C4_Buffer(all[j])}}

\* the frame that reaches the buffer filter: the run of the script with the
\* slider on "All"
BeforeBuffer ==
    Script(uploaded_file, view.day, sel, f_yn, f_cat, f_insp, f_reply, "All").view.table

\* C5: the buffer filter keeps exactly the records in its bucket: Overdue
\* days < 0, 1 Month 0 <= days <= 30, 3 Months 0 <= days <= 90, All every
\* record; a record with null days is kept by All alone.
C5_BufferFilter ==
    Shown =>
        LET before == BeforeBuffer
            kept == {i \in 1..Len(before) : InBucket(before[i].days, f_buffer)}
        IN /\ ShownLabels = {before[i].idx : i \in kept}
           /\ Len(view.table) = Cardinality(kept)
           /\ \A i \in 1..Len(view.table) : \E j \in kept : view.table[i] = before[j]
           /\ \A i \in 1..Len(before) :
                  (before[i].days = NaN /\ f_buffer # "All")
                      => before[i].idx \notin ShownLabels

\* Overdue keeps an overdue record and drops a record with null days
C5_Witness ==
    /\ Shown
    /\ f_buffer = "Overdue"
    /\ view.table # <<>>
    /\ \E i \in 1..Len(BeforeBuffer) : BeforeBuffer[i].days = NaN

\* the four counts the specification names, over the shown table
C8_Total == Len(view.table)
C8_Yes == Cardinality({i \in 1..Len(view.table) : view.table[i].defect = "Yes"})
C8_Major ==
    Cardinality({i \in 1..Len(view.table) :
        Contains(Upper(Str(view.table[i].cells[sel.idx.status + 1])), "MAJOR")})
C8_Overdue ==
    Cardinality({i \in 1..Len(view.table) :
        view.table[i].days.t = "int" /\ view.table[i].days.n < 0})

\* C8 as stated: the summary is four counts over the filtered table: the
\* rows, the rows of category Yes, the rows whose status holds MAJOR, the
\* rows with days < 0.
C8_AsStated ==
    Shown =>
        /\ Len(view.metrics) = 4
        /\ [i \in 1..4 |-> view.metrics[i].value]
               = <<C8_Total, C8_Yes, C8_Major, C8_Overdue>>

\* C8 (amended): the summary is three counts over the filtered table: the
\* rows, the rows of category Yes, the rows with days < 0.
C8_Summary ==
    Shown =>
        /\ Len(view.metrics) = 3
        /\ [i \in 1..3 |-> view.metrics[i].value] = <<C8_Total, C8_Yes, C8_Overdue>>

\* a filtered table, smaller than the file, with a Yes, a No and an overdue
\* record
C8_Witness ==
    /\ Shown
    /\ f_reply # "All"
    /\ Len(view.table) < Len(RawTable)
    /\ C8_Yes > 0 /\ C8_Yes < C8_Total
    /\ C8_Overdue > 0

\* C9 as stated: when a stage of the run fails, the script catches the
\* exception and reports exactly one error message, and neither metrics nor
\* a table are drawn.
C9_AsStated ==
    view.failed # "none" =>
        /\ view.caught
        /\ Len(view.errors) = 1
        /\ view.metrics = <<>>
        /\ view.table = <<>>

\* C10 as stated: every shown record's derived fields are those computed
\* from the raw cells of the RawTable under the current schema: the category
\* from the raw status cell, the due date from the parsed raw date cell and
\* the raw status cell, the days from that due date.
C10_AsStated ==
    Shown =>
        \A i \in 1..Len(view.table) :
            LET r == view.table[i]
                raw == RawTable[r.idx + 1]
                status == raw[sel.idx.status + 1]
                due == get_due_date(to_date(raw[sel.idx.date + 1]), status)
            IN /\ r.defect = categorize_defect(status)
               /\ r.due = due
               /\ r.days = days_left(due, view.day)

====
